---- MODULE Spec2Model ----
(***************************************************************************)
(* examples/c_segfault.c: a lookup that builds a User record whose manager *)
(* pointer is NULL, and a reporting function that dereferences it.         *)
(*                                                                         *)
(* The state is the C abstract machine's: the program position, the three  *)
(* `user` variables (find_user's local, main's local, print_manager_name's *)
(* parameter), the heap, the lines written to stdout and the way the       *)
(* process ended.  One action per statement of the source.                 *)
(***************************************************************************)
EXTENDS Integers, Sequences, FiniteSets, TLC

\* ---- bounds of the model -------------------------------------------------
\* identifiers tried as find_user's argument: -MaxId .. MaxId
MaxId == 3
\* heap addresses malloc can hand out: 1 .. MaxAddr
MaxAddr == 3
\* indeterminate int values a fresh allocation can hold: 0 .. MaxGarbage
MaxGarbage == 2

\* ---- program constants ---------------------------------------------------
\* the null pointer
NULL == 0
\* the identifier main looks up (line 30) and find_user recognises (line 14)
MainId == 1
\* the string literal stored at line 19
Alice == "Alice"
\* status returned by main at line 37
ExitOk == 0
\* the format prefixes of the two printf calls (lines 33 and 26)
FoundFmt == "Found user: "
ManagerFmt == "Manager: "

\* ---- value sets ----------------------------------------------------------
Ids == (0 - MaxId)..MaxId
Addrs == 1..MaxAddr
\* a variable of a frame that is not live
Dead == 0 - 1
\* pointer values an indeterminate pointer field can hold: NULL, a heap
\* address, or an address outside the heap
WildAddr == MaxAddr + 1
GarbagePtrs == NULL..WildAddr
GarbageInts == 0..MaxGarbage
\* what an indeterminate char* can lead to when printed
GarbageNames == {"", "?"}
\* the signals an invalid access ends the process with: the access itself
\* traps (SIGSEGV), or the compiler has replaced the dereference it knows
\* to be null by a trap instruction (SIGILL)
FaultSignals == {"SIGSEGV", "SIGILL"}

VARIABLES
    pc,         \* the statement about to execute
    id,         \* find_user's parameter
    fu_user,    \* find_user's local `user`
    user,       \* main's local `user`
    pmn_user,   \* print_manager_name's parameter `user`
    heap,       \* address -> struct User cell
    out,        \* lines written to stdout, in order
    status,     \* "running", "exited" or "signalled"
    exit_code,  \* main's return value once exited
    signal      \* the fault signal once signalled

vars == <<pc, id, fu_user, user, pmn_user, heap, out, status, exit_code, signal>>

\* struct User (lines 6-10), with the allocation state of its cell
User(i, n, m) == [alloc |-> TRUE, id |-> i, name |-> n, manager |-> m]
FreeCell == [alloc |-> FALSE, id |-> 0, name |-> "", manager |-> NULL]

Allocated == {a \in Addrs : heap[a].alloc}

\* a pointer that can be dereferenced: it points at an allocated cell
Valid(p) == p \in Addrs /\ heap[p].alloc

\* abnormal termination at the current statement: pc stays where it is
Fault ==
    /\ status' = "signalled"
    /\ \E sig \in FaultSignals : signal' = sig
    /\ UNCHANGED <<pc, id, fu_user, user, pmn_user, heap, out, exit_code>>

\* printf("<prefix>%s\n", s)
Printf(prefix, s) == Append(out, prefix \o s)

\* a lookup whose test is an ordering test: it also knows the ids below 1
NotFoundBelow(i) == i > 1

\* line 14: the identifiers the lookup does not know
NotFound(i) == i # 1

\* line 30: main calls find_user(1); the model also tries the other Ids
MainCallFindUser ==
    /\ status = "running" /\ pc = "main_call_find"
    /\ pc' = "fu_test"
    /\ UNCHANGED <<id, fu_user, user, pmn_user, heap, out, status, exit_code, signal>>

\* a lookup that allocates the record before it tests the identifier
FindUserTestAllocFirst ==
    /\ status = "running" /\ pc = "fu_test"
    /\ \E p \in Addrs \ Allocated :
         heap' = [heap EXCEPT ![p] = User(0, "", NULL)]
    /\ IF NotFound(id)
         THEN /\ pc' = "main_if"
              /\ user' = NULL
         ELSE /\ pc' = "fu_malloc"
              /\ user' = user
    /\ UNCHANGED <<id, fu_user, pmn_user, out, status, exit_code, signal>>

\* lines 14-16: if (id != 1) return NULL;
FindUserTest ==
    /\ status = "running" /\ pc = "fu_test"
    /\ IF NotFound(id)
         THEN /\ pc' = "main_if"
              /\ user' = NULL
         ELSE /\ pc' = "fu_malloc"
              /\ user' = user
    /\ UNCHANGED <<id, fu_user, pmn_user, heap, out, status, exit_code, signal>>

\* line 17: malloc returns NULL, or a free cell with indeterminate contents
FindUserMalloc ==
    /\ status = "running" /\ pc = "fu_malloc"
    /\ \E p \in {NULL} \cup (Addrs \ Allocated) :
         /\ fu_user' = p
         /\ IF p = NULL
              THEN heap' = heap
              ELSE \E gi \in GarbageInts, gn \in GarbageNames, gm \in GarbagePtrs :
                     heap' = [heap EXCEPT ![p] = User(gi, gn, gm)]
    /\ pc' = "fu_set_id"
    /\ UNCHANGED <<id, user, pmn_user, out, status, exit_code, signal>>

\* line 18: user->id = 1;
FindUserSetId ==
    /\ status = "running" /\ pc = "fu_set_id"
    /\ IF Valid(fu_user)
         THEN /\ heap' = [heap EXCEPT ![fu_user].id = 1]
              /\ pc' = "fu_set_name"
              /\ UNCHANGED <<id, fu_user, user, pmn_user, out, status, exit_code, signal>>
         ELSE Fault

\* a lookup that leaves the name as malloc returned it
FindUserSetNameSkipped ==
    /\ status = "running" /\ pc = "fu_set_name"
    /\ pc' = "fu_set_manager"
    /\ UNCHANGED <<id, fu_user, user, pmn_user, heap, out, status, exit_code, signal>>

\* line 19: user->name = "Alice";
FindUserSetName ==
    /\ status = "running" /\ pc = "fu_set_name"
    /\ IF Valid(fu_user)
         THEN /\ heap' = [heap EXCEPT ![fu_user].name = Alice]
              /\ pc' = "fu_set_manager"
              /\ UNCHANGED <<id, fu_user, user, pmn_user, out, status, exit_code, signal>>
         ELSE Fault

\* a lookup that leaves the manager as malloc returned it
FindUserSetManagerSkipped ==
    /\ status = "running" /\ pc = "fu_set_manager"
    /\ pc' = "fu_return"
    /\ UNCHANGED <<id, fu_user, user, pmn_user, heap, out, status, exit_code, signal>>

\* line 20: user->manager = NULL;
FindUserSetManager ==
    /\ status = "running" /\ pc = "fu_set_manager"
    /\ IF Valid(fu_user)
         THEN /\ heap' = [heap EXCEPT ![fu_user].manager = NULL]
              /\ pc' = "fu_return"
              /\ UNCHANGED <<id, fu_user, user, pmn_user, out, status, exit_code, signal>>
         ELSE Fault

\* line 21 and the assignment of line 30: return user;
FindUserReturn ==
    /\ status = "running" /\ pc = "fu_return"
    /\ user' = fu_user
    /\ fu_user' = Dead
    /\ pc' = "main_if"
    /\ UNCHANGED <<id, pmn_user, heap, out, status, exit_code, signal>>

\* an entry point without the guard of line 32
MainIfUnguarded ==
    /\ status = "running" /\ pc = "main_if"
    /\ pc' = "main_printf"
    /\ UNCHANGED <<id, fu_user, user, pmn_user, heap, out, status, exit_code, signal>>

\* line 32: if (user)
MainIf ==
    /\ status = "running" /\ pc = "main_if"
    /\ pc' = IF user # NULL THEN "main_printf" ELSE "main_return"
    /\ UNCHANGED <<id, fu_user, user, pmn_user, heap, out, status, exit_code, signal>>

\* line 33: printf("Found user: %s\n", user->name);
MainPrintf ==
    /\ status = "running" /\ pc = "main_printf"
    /\ IF Valid(user)
         THEN /\ out' = Printf(FoundFmt, heap[user].name)
              /\ pc' = "main_call_pmn"
              /\ UNCHANGED <<id, fu_user, user, pmn_user, heap, status, exit_code, signal>>
         ELSE Fault

\* line 34: print_manager_name(user);
MainCallPrintManagerName ==
    /\ status = "running" /\ pc = "main_call_pmn"
    /\ pmn_user' = user
    /\ pc' = "pmn"
    /\ UNCHANGED <<id, fu_user, user, heap, out, status, exit_code, signal>>

\* a reporting function that checks the manager and returns when it is absent
PrintManagerNameChecked ==
    /\ status = "running" /\ pc = "pmn"
    /\ IF Valid(pmn_user)
         THEN /\ out' = IF Valid(heap[pmn_user].manager)
                          THEN Printf(ManagerFmt, heap[heap[pmn_user].manager].name)
                          ELSE out
              /\ pmn_user' = Dead
              /\ pc' = "main_return"
              /\ UNCHANGED <<id, fu_user, user, heap, status, exit_code, signal>>
         ELSE Fault

\* a reporting function that prints the record's own name
PrintManagerNameOwnName ==
    /\ status = "running" /\ pc = "pmn"
    /\ IF Valid(pmn_user)
         THEN /\ out' = Printf(ManagerFmt, heap[pmn_user].name)
              /\ pmn_user' = Dead
              /\ pc' = "main_return"
              /\ UNCHANGED <<id, fu_user, user, heap, status, exit_code, signal>>
         ELSE Fault

\* line 26: printf("Manager: %s\n", user->manager->name); the argument is
\* evaluated first, so a manager that cannot be dereferenced faults before
\* anything is printed.  A manager outside the heap is an invalid read whose
\* outcome is either the fault or whatever bytes are there.
PrintManagerName ==
    /\ status = "running" /\ pc = "pmn"
    /\ IF (IF Valid(pmn_user) THEN heap[pmn_user].manager = NULL ELSE TRUE)
         THEN Fault
         ELSE \E faults \in BOOLEAN, gn \in GarbageNames :
                LET m == heap[pmn_user].manager IN
                IF ~Valid(m) /\ faults
                  THEN Fault
                  ELSE /\ out' = Printf(ManagerFmt, IF Valid(m) THEN heap[m].name ELSE gn)
                       /\ pmn_user' = Dead
                       /\ pc' = "main_return"
                       /\ UNCHANGED <<id, fu_user, user, heap, status, exit_code, signal>>

\* line 37: return 0;
MainReturn ==
    /\ status = "running" /\ pc = "main_return"
    /\ status' = "exited"
    /\ exit_code' = ExitOk
    /\ pc' = "done"
    /\ UNCHANGED <<id, fu_user, user, pmn_user, heap, out, signal>>

Init ==
    /\ pc = "main_call_find"
    /\ id \in Ids
    /\ fu_user = Dead
    /\ user = Dead
    /\ pmn_user = Dead
    /\ heap = [a \in Addrs |-> FreeCell]
    /\ out = <<>>
    /\ status = "running"
    /\ exit_code = Dead
    /\ signal = "none"

Next ==
    \/ MainCallFindUser
    \/ FindUserTest
    \/ FindUserMalloc
    \/ FindUserSetId
    \/ FindUserSetName
    \/ FindUserSetManager
    \/ FindUserReturn
    \/ MainIf
    \/ MainPrintf
    \/ MainCallPrintManagerName
    \/ PrintManagerName
    \/ MainReturn

Spec == Init /\ [][Next]_vars

\* the program is one thread that is never blocked: a statement that can
\* execute does
FairSpec == Spec /\ WF_vars(Next)

\* ---- the claims -----------------------------------------------------------

\* C1: the run of main with identifier 1 writes "Found user: Alice", then ends
\* in a fault, and never reaches main's return 0.
C1_MainWritesFoundThenFaults ==
    id = MainId =>
        /\ pc \notin {"main_return", "done"}
        /\ status # "exited"
        /\ (status = "signalled" => out = <<"Found user: Alice">>)

C3_OtherIdsReturnNull ==
    /\ id # 1 =>
          /\ status # "signalled"
          /\ Allocated = {}
          /\ fu_user = Dead
          /\ out = <<>>
          /\ (pc \notin {"main_call_find", "fu_test"} => user = NULL)
    /\ user \in Addrs => id = 1

C3_Witness == id # 1 /\ pc = "main_if" /\ user = NULL /\ status = "running"

\* C4: print_manager_name on a record whose manager is NULL ends the process
\* with a fault at the dereference: it prints nothing and does not return.
C4_AbsentManagerFaults ==
    [][(status = "running" /\ pc = "pmn" /\ Valid(pmn_user)
            /\ heap[pmn_user].manager = NULL)
         => (status' = "signalled" /\ signal' \in FaultSignals /\ pc' = "pmn"
               /\ out' = out /\ exit_code' = exit_code)]_vars

C4_Witness ==
    /\ status = "signalled" /\ pc = "pmn"
    /\ Valid(pmn_user) /\ heap[pmn_user].manager = NULL

\* C5: with an identifier other than 1 the lookup returns NULL, the guard of
\* main keeps the run away from both the "Found user" printf and
\* print_manager_name, nothing is written, and the process exits with status 0.
C5_OtherIdsExitZero ==
    /\ [](id # 1 =>
            /\ user \in {Dead, NULL}
            /\ pc \notin {"main_printf", "main_call_pmn", "pmn"}
            /\ pmn_user = Dead
            /\ out = <<>>
            /\ status # "signalled"
            /\ (status = "exited" => exit_code = 0))
    /\ (id # 1 ~> (status = "exited" /\ exit_code = 0 /\ out = <<>>))

C5_Witness == id # 1 /\ pc = "done" /\ status = "exited" /\ exit_code = 0

\* C6: the only fault of any execution is the dereference of a NULL manager
\* inside print_manager_name; no other statement ends the process abnormally,
\* whatever malloc returned.
C6_OnlyManagerDerefFaults ==
    status = "signalled" =>
        /\ pc = "pmn"
        /\ Valid(pmn_user)
        /\ heap[pmn_user].manager = NULL

\* C7: a run ends in one of two terminal states: normal exit exactly when the
\* lookup returned NULL, a fault exactly when the lookup returned a record.
C7_TerminalStateMatchesLookup ==
    status # "running" =>
        /\ status \in {"exited", "signalled"}
        /\ (status = "exited" <=> user = NULL)
        /\ (status = "signalled" <=> user \in Addrs)

\* termination: under FairSpec every run of the single thread ends
EveryRunTerminates == <>(status # "running")

\* C8: at most one User record is ever allocated; it is allocated only when
\* the lookup succeeds, after the return only main's `user` refers to it, and
\* it is never released, so it is still allocated when the process has ended.
C8_Inv ==
    /\ Cardinality(Allocated) <= 1
    /\ (Allocated # {} => id = 1)
    /\ (user = NULL => Allocated = {})
    /\ (fu_user \in Addrs => Allocated = {fu_user})
    /\ user \in Addrs =>
          /\ Allocated = {user}
          /\ fu_user = Dead
          /\ pmn_user \in {Dead, user}
          /\ \A a \in Addrs : heap[a].manager # user

C8_OneRecordNeverReleased ==
    /\ []C8_Inv
    /\ [][\A a \in Addrs : heap[a].alloc => heap'[a].alloc]_vars

C8_Witness == status = "signalled" /\ user \in Addrs /\ Allocated = {user}

\* C9: on the found path the "Found user" line is the only line written: the
\* fault comes while the argument of the reporting printf is evaluated, so no
\* "Manager:" line is ever written and the output never has two lines.
C9_OnlyFoundLineWritten ==
    /\ Len(out) <= 1
    /\ \A i \in 1..Len(out) : out[i] = "Found user: Alice"
    /\ (pc = "pmn" => out = <<"Found user: Alice">>)
    /\ (pc = "pmn" => pmn_user = user)

C9_Witness == pc = "pmn" /\ status = "signalled" /\ Len(out) = 1

\* C10: every record find_user has returned has a NULL manager in every
\* state, so print_manager_name faults on every record the lookup returns and
\* no run that called it exits or writes a manager name.
C10_ManagerAlwaysAbsent ==
    /\ user \in Addrs => (Valid(user) /\ heap[user].manager = NULL)
    /\ pmn_user \in Addrs => heap[pmn_user].manager = NULL
    /\ (pc \in {"main_return", "done"} => user = NULL)
    /\ (status = "exited" => out = <<>>)

C10_Witness ==
    /\ user \in Addrs /\ heap[user].manager = NULL
    /\ pc = "pmn" /\ signal \in FaultSignals
====
